---- MODULE Spec2Model ----
(***************************************************************************)
(* storelet: createStore(initialState, listen) -> { connect, useStore }.   *)
(*                                                                         *)
(* The model follows one store.  JavaScript is single threaded, so the     *)
(* program is a call stack of frames: an `update` call walking its         *)
(* mutators (forEach), and a `flush` loop.  Control leaves the library at  *)
(* two places only, the mutator and the listener; there user code may call *)
(* `update` again (re-entrancy) or raise.  Every `connect` render builds a *)
(* fresh context object `{...ContextBase, state, setState, hasProvider}`:  *)
(* the spread copies `isFlushing` and `state` by value and                 *)
(* `mutatorsQueue` by reference, and `add`/`flush` run with `this` bound   *)
(* to the context object the handle was taken from.                        *)
(***************************************************************************)
EXTENDS Integers, Sequences, FiniteSets, TLC

\* ---- bounds of the model -------------------------------------------------
\* The size of the input of one behaviour: a mount or a re-render counts 1,
\* an update call counts 1 plus the number of its mutators.
MaxInputs == 7
\* The same, for the behaviours of SpecDeep (one-mutator calls only).
DeepInputs == 10

\* ---- state ---------------------------------------------------------------
\* The State is a list; createStore is given the empty list.
InitialState == <<>>

\* ---- mutators ------------------------------------------------------------
\* Every mutator passed to update is a closure of its own: the idx-th
\* mutator of call k either pushes its tag <<k, idx>> on the draft
\* ("push": draft.push(tag)) or raises ("throw").  Pushes of different tags
\* do not commute, so the State tells which mutators ran, and in what order.
Mutators == {"push", "throw"}

\* mutative's create(this.state, draft => mutator(draft, this.state)):
\* the new immutable value (lines 61-70).
create(base, item) ==
  IF item.mutator = "push"
    THEN Append(base, <<item.owner, item.idx>>)
    ELSE base

\* the argument lists of n mutators an update call may be given
Batches(n) == [1..n -> Mutators]

VARIABLES
  hasListener,    \* typeof listen === 'function'
  isProducer,     \* typeof initialState === 'function'
  production,     \* process.env.APP_ENV === 'production'
  reactState,     \* per mounted connect component: the useState value
  ctxs,           \* the context objects built so far (state, isFlushing, mount)
  mutatorsQueue,  \* the one array every context object of the store shares
  stack,          \* the JavaScript call stack (update and flush frames)
  calls,          \* every update call: its arguments and deferred promise,
                  \* and history: pre (the context's state at the call),
                  \* reentrant (made from a mutator or a listener), at (the
                  \* number of writes before it), drains (flushes it began)
  enqueued,       \* history: <<call, idx>> in the order steps were pushed
  listened,       \* history: the listener's invocations, in order
  applied,        \* history: the writes `this.state = newState`, in order
  errors,         \* history: number of exceptions raised so far
  inputs,         \* history: the size of the input consumed so far
  events,         \* history: what flush did, in order (see Event)
  producerCalls,  \* history: evaluations of the initialState producer
  usage           \* history: outcomes of useStore outside any provider

\* the environment: fixed when the store is created
env == <<hasListener, isProducer, production>>

vars == <<hasListener, isProducer, production, reactState, ctxs,
          mutatorsQueue, stack, calls, enqueued, listened, applied, errors,
          inputs, events, producerCalls, usage>>

\* ---- createStore ---------------------------------------------------------
stateReader == InitialState

\* stateReader(): one more evaluation of the producer, when there is one
readState(n) == IF isProducer THEN n + 1 ELSE n

ContextBase ==
  [state |-> stateReader, hasProvider |-> FALSE, isFlushing |-> FALSE,
   mount |-> 0]

\* an entry of the events history: ev is "mutator" (the mutator is invoked;
\* arg is its second argument), "listen", "state" (this.state = newState),
\* "resolve", "setState" (arg is the value passed) or "raise"
Event(ev, item, arg) ==
  [ev |-> ev, owner |-> item.owner, idx |-> item.idx, arg |-> arg]

NoItem == [mutator |-> "none", deferredPromise |-> 0, owner |-> 0, idx |-> 0]

UpdateFrame(c, k) ==
  [kind |-> "update", ctx |-> c, call |-> k, idx |-> 1, pc |-> "forEach",
   item |-> NoItem, newState |-> <<>>]

FlushFrame(c) ==
  [kind |-> "flush", ctx |-> c, call |-> 0, idx |-> 0, pc |-> "while",
   item |-> NoItem, newState |-> <<>>]

Top == stack[Len(stack)]
Pop == SubSeq(stack, 1, Len(stack) - 1)
ReplaceTop(f) == [stack EXCEPT ![Len(stack)] = f]

\* user code is running: at top level, or inside a mutator or a listener
InUserCode ==
  IF stack = <<>>
    THEN TRUE
    ELSE Top.kind = "flush" /\ Top.pc \in {"mutator", "listen"}

Init ==
  /\ hasListener \in BOOLEAN
  /\ reactState = <<>>
  /\ ctxs = <<>>
  /\ mutatorsQueue = <<>>
  /\ stack = <<>>
  /\ calls = <<>>
  /\ enqueued = <<>>
  /\ listened = <<>>
  /\ applied = <<>>
  /\ errors = 0
  /\ inputs = 0
  /\ isProducer \in BOOLEAN
  /\ production \in BOOLEAN
  /\ events = <<>>
  /\ producerCalls = readState(0)
  /\ usage = <<>>

\* ---- connect -------------------------------------------------------------
\* First render of a connect(Cmp) element: useState(stateReader) initialises
\* the React state, and a context object is built from ContextBase.
mount(budget) ==
  /\ stack = <<>>
  /\ inputs < budget
  /\ inputs' = inputs + 1
  /\ reactState' = Append(reactState, stateReader)
  /\ producerCalls' = readState(producerCalls)
  /\ ctxs' = Append(ctxs, [ContextBase EXCEPT !.state = stateReader,
                                              !.hasProvider = TRUE,
                                              !.mount = Len(reactState) + 1])
  /\ UNCHANGED <<env, mutatorsQueue, stack, calls, enqueued,
                 listened, applied, errors, events, usage>>

\* A later render of mount m: useState returns the React state, and a new
\* context object is built; the earlier ones stay referenced by the handles
\* taken from them.
render(m, budget) ==
  /\ stack = <<>>
  /\ inputs < budget
  /\ inputs' = inputs + 1
  /\ m \in 1..Len(reactState)
  /\ ctxs' = Append(ctxs, [ContextBase EXCEPT !.state = reactState[m],
                                              !.hasProvider = TRUE,
                                              !.mount = m])
  /\ UNCHANGED <<env, reactState, mutatorsQueue, stack, calls,
                 enqueued, listened, applied, errors, events, producerCalls,
                 usage>>

\* ---- useStore ------------------------------------------------------------
\* the value of useContext(Context): the default value {...ContextBase}
\* outside any provider (c = 0), else the context object of the provider
Context(c) == IF c = 0 THEN ContextBase ELSE ctxs[c]

\* (mutant) useStore without the hasProvider test
useStoreOutcome_noTest(context) == [error |-> "", handle |-> TRUE]

\* what useStore does with the context it reads: raise, or return
\* { state, update }
useStoreOutcome(context) ==
  IF ~context.hasProvider
    THEN [error |-> "Component must be wrapped with \"connect(...)\"",
          handle |-> FALSE]
    ELSE [error |-> "", handle |-> TRUE]

\* useStore() in a component that no connect(...) wraps
useStore(budget) ==
  /\ stack = <<>>
  /\ inputs < budget
  /\ inputs' = inputs + 1
  /\ usage' = Append(usage, useStoreOutcome(Context(0)))
  /\ UNCHANGED <<env, reactState, ctxs, mutatorsQueue, stack, calls,
                 enqueued, listened, applied, errors, events, producerCalls>>

\* ---- useStore().update ---------------------------------------------------
\* (mutant) the promise of a call without mutators is settled at once
pDefer_settleEmpty(ms) == IF ms = <<>> THEN "fulfilled" ELSE "pending"

\* pDefer(): the deferred promise of an update call starts pending
pDefer(ms) == "pending"

\* update(...mutators) through the handle useStore returned for context
\* object c: creates the deferred promise and starts the forEach.
update(c, ms, budget) ==
  /\ InUserCode
  /\ c \in 1..Len(ctxs)
  /\ useStoreOutcome(Context(c)).handle
  /\ inputs + 1 + Len(ms) <= budget
  /\ inputs' = inputs + 1 + Len(ms)
  /\ calls' = Append(calls,
       [ctx |-> c, mutators |-> ms, pre |-> ctxs[c].state,
        reentrant |-> stack # <<>>, at |-> Len(applied), drains |-> 0,
        promise |-> pDefer(ms), value |-> <<>>, resolves |-> 0,
        raised |-> FALSE, exit |-> "running"])
  /\ stack' = Append(stack, UpdateFrame(c, Len(calls) + 1))
  /\ UNCHANGED <<env, reactState, ctxs, mutatorsQueue, enqueued,
                 listened, applied, errors, events, producerCalls, usage>>

\* (mutant) every add is handed the deferred promise
deferredFor_everyStep(idx, n, k) == k

\* the deferred promise the idx-th of n mutators of call k is added with
deferredFor(idx, n, k) == IF idx = n THEN k ELSE 0

\* One forEach iteration: context.add(mutator, deferredPromise?) pushes the
\* item and calls flush, which returns at once when this.isFlushing.
add ==
  /\ stack # <<>>
  /\ Top.kind = "update"
  /\ Top.idx <= Len(calls[Top.call].mutators)
  /\ LET f == Top
         k == f.call
         ms == calls[k].mutators
         item == [mutator |-> ms[f.idx],
                  deferredPromise |-> deferredFor(f.idx, Len(ms), k),
                  owner |-> k, idx |-> f.idx]
         next == ReplaceTop([f EXCEPT !.idx = f.idx + 1])
     IN /\ mutatorsQueue' = Append(mutatorsQueue, item)
        /\ enqueued' = Append(enqueued, <<k, f.idx>>)
        /\ IF ctxs[f.ctx].isFlushing
             THEN /\ stack' = next
                  /\ calls' = calls
             ELSE /\ stack' = Append(next, FlushFrame(f.ctx))
                  /\ calls' = [calls EXCEPT ![k].drains = @ + 1]
  /\ UNCHANGED <<env, reactState, ctxs, listened, applied, errors,
                 inputs, events, producerCalls, usage>>

\* forEach is over: update returns deferredPromise.promise
updateReturn ==
  /\ stack # <<>>
  /\ Top.kind = "update"
  /\ Top.idx > Len(calls[Top.call].mutators)
  /\ calls' = [calls EXCEPT ![Top.call].exit = "returned"]
  /\ stack' = Pop
  /\ UNCHANGED <<env, reactState, ctxs, mutatorsQueue, enqueued, listened,
                 applied, errors, inputs, events, producerCalls, usage>>

\* (mutant) flush returns without resetting the flag
resetFlushing_skipped(c) == ctxs

\* line 82, after the while loop: this.isFlushing = false
resetFlushing(c) == [ctxs EXCEPT ![c].isFlushing = FALSE]

\* ---- flush ---------------------------------------------------------------
\* The while test.  Non-empty queue: set this.isFlushing, shift the head and
\* call create, which invokes the mutator.  Empty queue: reset the flag and
\* return.
flushWhile ==
  /\ stack # <<>>
  /\ Top.kind = "flush"
  /\ Top.pc = "while"
  /\ LET c == Top.ctx
     IN IF mutatorsQueue # <<>>
          THEN /\ ctxs' = [ctxs EXCEPT ![c].isFlushing = TRUE]
               /\ mutatorsQueue' = Tail(mutatorsQueue)
               /\ stack' = ReplaceTop([Top EXCEPT !.pc = "mutator",
                                                 !.item = Head(mutatorsQueue)])
               /\ events' = Append(events,
                    Event("mutator", Head(mutatorsQueue), ctxs[c].state))
          ELSE /\ ctxs' = resetFlushing(c)
               /\ mutatorsQueue' = mutatorsQueue
               /\ stack' = Pop
               /\ events' = events
  /\ UNCHANGED <<env, reactState, calls, enqueued, listened,
                 applied, errors, inputs, producerCalls, usage>>

\* deferredPromise?.resolve(newState): a promise settles once; later
\* resolve calls are counted and otherwise ignored.
resolve(cs, item, newState) ==
  IF item.deferredPromise = 0
    THEN cs
    ELSE [cs EXCEPT
           ![item.deferredPromise].resolves = @ + 1,
           ![item.deferredPromise].promise = "fulfilled",
           ![item.deferredPromise].value =
              IF cs[item.deferredPromise].promise = "pending"
                THEN newState ELSE @]

\* (mutant) the bridge setter is called before the promise is resolved
flushTail_setterFirst(item, newState) ==
  <<Event("state", item, newState), Event("setState", item, newState)>>
  \o (IF item.deferredPromise = 0
        THEN <<>> ELSE <<Event("resolve", item, newState)>>)

\* lines 77-80, in the order of the code: this.state = newState;
\* deferredPromise?.resolve(newState); this.setState(this.state)
flushTail(item, newState) ==
  <<Event("state", item, newState)>>
  \o (IF item.deferredPromise = 0
        THEN <<>> ELSE <<Event("resolve", item, newState)>>)
  \o <<Event("setState", item, newState)>>

\* lines 77-80: this.state = newState; resolve; this.setState(this.state);
\* then back to the while test.
commit(c, item, newState) ==
  /\ events' = events \o flushTail(item, newState)
  /\ applied' = Append(applied,
       [owner |-> item.owner, idx |-> item.idx, ctx |-> c,
        oldState |-> ctxs[c].state, newState |-> newState])
  /\ ctxs' = [ctxs EXCEPT ![c].state = newState]
  /\ calls' = resolve(calls, item, newState)
  /\ reactState' = [reactState EXCEPT ![ctxs[c].mount] = newState]
  /\ stack' = ReplaceTop([Top EXCEPT !.pc = "while", !.item = NoItem,
                                     !.newState = <<>>])

\* (mutant) the test of APP_ENV inverted
patchesOf_inverted(base, item) ==
  IF production /\ item.mutator = "push"
    THEN <<[op |-> "add", path |-> <<Len(base)>>,
            value |-> <<item.owner, item.idx>>]>>
    ELSE <<>>

\* lines 57-71: the patches create returns with enablePatches (one "add"
\* patch for a push) when APP_ENV is not 'production'; [] otherwise
patchesOf(base, item) ==
  IF ~production /\ item.mutator = "push"
    THEN <<[op |-> "add", path |-> <<Len(base)>>,
            value |-> <<item.owner, item.idx>>]>>
    ELSE <<>>

\* (mutant) flush catches the exception: no update call is left by it
unwound_caught(cs) == cs

\* the update calls an exception leaves: every update frame on the stack
unwound(cs) ==
  [k \in DOMAIN cs |->
     IF \E i \in DOMAIN stack : stack[i].kind = "update" /\ stack[i].call = k
       THEN [cs[k] EXCEPT !.exit = "thrown"]
       ELSE cs[k]]

\* The mutator returns: create yields newState; the listener, when there is
\* one, is invoked with { newState, oldState: this.state, patches }.
mutatorReturn ==
  /\ stack # <<>>
  /\ Top.kind = "flush"
  /\ Top.pc = "mutator"
  /\ Top.item.mutator # "throw"
  /\ LET c == Top.ctx
         item == Top.item
         newState == create(ctxs[c].state, item)
     IN IF hasListener
          THEN /\ listened' = Append(listened,
                    [owner |-> item.owner, idx |-> item.idx,
                     oldState |-> ctxs[c].state, newState |-> newState,
                     patches |-> patchesOf(ctxs[c].state, item),
                     seen |-> Len(applied)])
               /\ stack' = ReplaceTop([Top EXCEPT !.pc = "listen",
                                                  !.newState = newState])
               /\ events' = Append(events, Event("listen", item, newState))
               /\ UNCHANGED <<reactState, ctxs, calls, applied>>
          ELSE /\ commit(c, item, newState)
               /\ listened' = listened
  /\ UNCHANGED <<env, mutatorsQueue, enqueued, errors, inputs,
                 producerCalls, usage>>

\* The mutator raises: nothing in flush, add or update catches, so every
\* frame is unwound; the shifted item is gone and isFlushing stays set.
mutatorThrow ==
  /\ stack # <<>>
  /\ Top.kind = "flush"
  /\ Top.pc = "mutator"
  /\ Top.item.mutator = "throw"
  /\ calls' = [unwound(calls) EXCEPT ![Top.item.owner].raised = TRUE]
  /\ events' = Append(events,
       Event("raise", Top.item, <<stack[Len(stack) - 1].call, Top.ctx>>))
  /\ errors' = errors + 1
  /\ stack' = <<>>
  /\ UNCHANGED <<env, reactState, ctxs, mutatorsQueue, enqueued,
                 listened, applied, inputs, producerCalls, usage>>

\* The listener returns: lines 77-80.
listenReturn ==
  /\ stack # <<>>
  /\ Top.kind = "flush"
  /\ Top.pc = "listen"
  /\ commit(Top.ctx, Top.item, Top.newState)
  /\ UNCHANGED <<env, mutatorsQueue, enqueued, listened, errors,
                 inputs, producerCalls, usage>>

\* The listener raises: as for a raising mutator, nothing catches.
listenThrow ==
  /\ stack # <<>>
  /\ Top.kind = "flush"
  /\ Top.pc = "listen"
  /\ calls' = unwound(calls)
  /\ errors' = errors + 1
  /\ stack' = <<>>
  /\ UNCHANGED <<env, reactState, ctxs, mutatorsQueue, enqueued, listened,
                 applied, inputs, events, producerCalls, usage>>

Next ==
  \/ useStore(MaxInputs)
  \/ mount(MaxInputs)
  \/ \E m \in 1..Len(reactState) : render(m, MaxInputs)
  \/ \E c \in 1..Len(ctxs) : \E n \in 0..(MaxInputs - inputs - 1) :
       \E ms \in Batches(n) : update(c, ms, MaxInputs)
  \/ add
  \/ updateReturn
  \/ flushWhile
  \/ mutatorReturn
  \/ mutatorThrow
  \/ listenReturn
  \/ listenThrow

Spec == Init /\ [][Next]_vars

\* Longer behaviours over a smaller input alphabet: every update call is
\* given one mutator, which does not raise.
NextDeep ==
  \/ mount(DeepInputs)
  \/ \E m \in 1..Len(reactState) : render(m, DeepInputs)
  \/ \E c \in 1..Len(ctxs) : update(c, <<"push">>, DeepInputs)
  \/ add
  \/ updateReturn
  \/ flushWhile
  \/ mutatorReturn
  \/ listenReturn
  \/ listenThrow

SpecDeep == Init /\ [][NextDeep]_vars

\* ==== claims ==============================================================

\* the flush frames on the call stack
Flushes == {i \in DOMAIN stack : stack[i].kind = "flush"}

AllPush(ms) == \A i \in DOMAIN ms : ms[i] = "push"

RECURSIVE applyAll(_, _, _, _)
\* the mutators i.. of call k applied, in order, to base
applyAll(base, k, ms, i) ==
  IF i > Len(ms)
    THEN base
    ELSE applyAll(create(base, [mutator |-> ms[i], deferredPromise |-> 0,
                                owner |-> k, idx |-> i]), k, ms, i + 1)

\* C1: the future of update(m1, ..., mn) resolves with m1, ..., mn applied
\* in that order to the state held when the call was made.  Stated for the
\* calls made at top level (no drain in progress), whose mutators all
\* return: there the state held at the call is the state of the context
\* object the handle belongs to.
C1_ResolvesWithBatchApplied ==
  \A k \in DOMAIN calls :
    (/\ ~calls[k].reentrant
     /\ AllPush(calls[k].mutators)
     /\ calls[k].promise = "fulfilled")
    => calls[k].value = applyAll(calls[k].pre, k, calls[k].mutators, 1)

\* C2: for one store, over all its context objects, at most one drain loop
\* (flush past its isFlushing test) is active at any instant.
C2_AtMostOneDrain == Cardinality(Flushes) <= 1

\* C3: every written step was computed from the state the step written
\* just before it produced (the initial state for the first).
C3_StepsChain ==
  \A i \in DOMAIN applied :
    applied[i].oldState =
      IF i = 1 THEN InitialState ELSE applied[i - 1].newState

\* C4: the deferred promise of an update call is resolved at most once, and
\* its value is the state written by the last step of that very call.
C4_ResolvedOnceWithLastStep ==
  \A k \in DOMAIN calls :
    /\ calls[k].resolves <= 1
    /\ calls[k].resolves > 0 =>
         /\ calls[k].promise = "fulfilled"
         /\ \E i \in DOMAIN applied :
              /\ applied[i].owner = k
              /\ applied[i].idx = Len(calls[k].mutators)
              /\ applied[i].newState = calls[k].value

\* witness of C4: a call with several mutators has been resolved, after
\* another call's step was written
C4_Witness ==
  \E k \in DOMAIN calls :
    /\ Len(calls[k].mutators) >= 2
    /\ calls[k].resolves = 1
    /\ \E i \in DOMAIN applied : applied[i].owner # k

Tag(e) == <<e.owner, e.idx>>

AppliedTags == {Tag(applied[i]) : i \in DOMAIN applied}

\* the place of step t in the order of enqueueing
Pos(t) == CHOOSE i \in DOMAIN enqueued : enqueued[i] = t

\* C5: the listener is invoked exactly once per written step, in the order
\* the steps were enqueued, with oldState the container state just before
\* the step (the state written last) and newState the state written by it.
C5_ListenerOncePerStepInOrder ==
  hasListener =>
    /\ \A i \in DOMAIN applied :
         Cardinality({j \in DOMAIN listened :
                        Tag(listened[j]) = Tag(applied[i])}) = 1
    /\ \A p, q \in DOMAIN listened :
         p < q => Pos(Tag(listened[p])) < Pos(Tag(listened[q]))
    /\ \A j \in DOMAIN listened :
         listened[j].oldState =
           IF listened[j].seen = 0
             THEN InitialState
             ELSE applied[listened[j].seen].newState
    /\ \A i \in DOMAIN applied : \A j \in DOMAIN listened :
         Tag(listened[j]) = Tag(applied[i])
           => listened[j].newState = applied[i].newState

\* C6: an update call made from a mutator or a listener during a drain
\* starts no drain of its own, and all its steps are written by the time
\* the outermost update call has returned.
C6_ReentrantUpdateJoinsDrain ==
  \A k \in DOMAIN calls :
    calls[k].reentrant =>
      /\ calls[k].drains = 0
      /\ (stack = <<>> /\ errors = 0) =>
           \A i \in DOMAIN calls[k].mutators : <<k, i>> \in AppliedTags

\* C7: the steps of one update call are written contiguously and in the
\* order given: no step of another call between two steps of one call.
C7_CallsNotInterleaved ==
  \A p, r \in DOMAIN applied :
    (p < r /\ applied[p].owner = applied[r].owner) =>
      /\ applied[p].idx < applied[r].idx
      /\ \A q \in p..r : applied[q].owner = applied[p].owner

\* call k was only enqueued: made during a drain, and none of its adds
\* began a drain
OnlyEnqueued(k) == calls[k].reentrant /\ calls[k].drains = 0

\* C8: of two update calls a, then b, both only enqueued during a drain and
\* b issued before any step of a was written, every step of a is written
\* before any step of b.
C8_EarlierCallFirst ==
  \A a, b \in DOMAIN calls :
    (/\ a < b
     /\ OnlyEnqueued(a)
     /\ OnlyEnqueued(b)
     /\ \A i \in 1..calls[b].at : applied[i].owner # a)
    => \A q \in DOMAIN applied :
         applied[q].owner = b =>
           \A i \in DOMAIN calls[a].mutators :
             \E p \in 1..(q - 1) : Tag(applied[p]) = <<a, i>>

\* C9: every enqueued step is applied and every update call with a mutator
\* is resolved: once the call stack is empty, nothing is left undone.
C9_EveryStepApplied ==
  stack = <<>> =>
    /\ \A i \in DOMAIN enqueued : enqueued[i] \in AppliedTags
    /\ \A k \in DOMAIN calls :
         Len(calls[k].mutators) >= 1 => calls[k].promise = "fulfilled"

\* C10: when a mutator of an update call raises, the deferred promise of
\* that call is rejected.
C10_RaisingMutatorRejects ==
  \A k \in DOMAIN calls : calls[k].raised => calls[k].promise = "rejected"

\* the places in the event log where a mutator raised
Raises == {i \in DOMAIN events : events[i].ev = "raise"}

\* C11: once a mutator has raised during a drain, the failing step is no
\* longer in the queue, the context object whose drain it was keeps
\* isFlushing true, and from then on no step of the store is taken from the
\* queue or written.
C11_RaiseWedgesStore ==
  \A i \in Raises :
    /\ \A q \in DOMAIN mutatorsQueue : Tag(mutatorsQueue[q]) # Tag(events[i])
    /\ ctxs[events[i].arg[2]].isFlushing
    /\ \A j \in DOMAIN events :
         j > i => events[j].ev \notin {"mutator", "state"}

\* C12: when a mutator raises, the update call whose add started the drain
\* is left by the exception (it never returns), and the failing step has no
\* effect: it is not written, the listener is not invoked for it, its
\* promise is not resolved by it and the bridge setter is not invoked for it.
C12_RaisePropagatesNoEffect ==
  \A i \in Raises :
    /\ calls[events[i].arg[1]].exit = "thrown"
    /\ Tag(events[i]) \notin AppliedTags
    /\ \A j \in DOMAIN listened : Tag(listened[j]) # Tag(events[i])
    /\ \A j \in DOMAIN events :
         Tag(events[j]) = Tag(events[i])
           => events[j].ev \in {"mutator", "raise"}

\* witness of C12: with a listener subscribed and a step already written,
\* a step raised in a drain started by another update call than its own
C12_Witness ==
  \E i \in Raises :
    /\ hasListener
    /\ applied # <<>>
    /\ events[i].owner # events[i].arg[1]

\* C13: useStore called where no connect(...) provides a context raises
\* 'Component must be wrapped with "connect(...)"', returns no
\* { state, update } handle, and leaves the state, the queue and the
\* isFlushing flags as they were.
C13_UseStoreWithoutProviderRaises ==
  [][usage' # usage =>
       /\ usage' = Append(usage,
            [error |-> "Component must be wrapped with \"connect(...)\"",
             handle |-> FALSE])
       /\ UNCHANGED <<reactState, ctxs, mutatorsQueue>>]_vars

\* witness of C13: useStore was called without a provider while the store
\* has a written step and a step left in the queue
C13_Witness ==
  /\ usage # <<>>
  /\ applied # <<>>
  /\ mutatorsQueue # <<>>

\* the state written last before place j of the event log
LastWritten(j) ==
  LET S == {p \in 1..(j - 1) : events[p].ev = "state"}
  IN IF S = {}
       THEN InitialState
       ELSE events[CHOOSE p \in S : \A q \in S : q <= p].arg

\* C14: the second argument a step's mutator is called with is the state
\* of the container just before that step (the state written last), and
\* for the k-th mutator of an update call, k > 1, it is the state the
\* (k-1)-th mutator of that call produced.
C14_MutatorGetsPrecedingState ==
  \A j \in DOMAIN events :
    events[j].ev = "mutator" =>
      /\ events[j].arg = LastWritten(j)
      /\ events[j].idx > 1 =>
           \E i \in DOMAIN applied :
             /\ Tag(applied[i]) = <<events[j].owner, events[j].idx - 1>>
             /\ applied[i].newState = events[j].arg

\* C15: an initial state given as a producer function is evaluated exactly
\* once for the store, at construction, whatever mounts, renders and
\* updates follow.
C15_ProducerEvaluatedOnce == isProducer => producerCalls = 1

\* C16: the patches the listener is called with for a step are not empty
\* when APP_ENV is not 'production' and the step's mutator writes to the
\* draft, and are the empty sequence for every step when APP_ENV is
\* 'production'.
C16_PatchesFollowDiagnosticMode ==
  \A j \in DOMAIN listened :
    /\ production => listened[j].patches = <<>>
    /\ (/\ ~production
        /\ calls[listened[j].owner].mutators[listened[j].idx] = "push")
       => listened[j].patches # <<>>

\* witness of C16: outside production the listener was called for two
\* steps, each with patches
C16_Witness ==
  /\ ~production
  /\ Len(listened) >= 2
  /\ \A j \in DOMAIN listened : listened[j].patches # <<>>

\* the places in the event log of the events ev of step t
At(t, ev) ==
  {j \in DOMAIN events : Tag(events[j]) = t /\ events[j].ev = ev}

\* every event a of step t comes before every event b of step t
Before(t, a, b) == \A p \in At(t, a) : \A q \in At(t, b) : p < q

\* a written step had its mutator applied once, then the listener (when
\* there is one) invoked once, then the state written once with newState;
\* the bridge setter is invoked exactly once for it, with newState, after
\* the state is written; the promise is resolved after the state is
\* written, for the last step of a call only
StepEvents(i) ==
  LET t == Tag(applied[i])
  IN /\ Cardinality(At(t, "mutator")) = 1
     /\ Cardinality(At(t, "listen")) = IF hasListener THEN 1 ELSE 0
     /\ Cardinality(At(t, "state")) = 1
     /\ Cardinality(At(t, "setState")) = 1
     /\ Cardinality(At(t, "resolve")) =
          IF t[2] = Len(calls[t[1]].mutators) THEN 1 ELSE 0
     /\ \A j \in At(t, "state") \cup At(t, "setState") :
          events[j].arg = applied[i].newState
     /\ Before(t, "mutator", "listen")
     /\ Before(t, "mutator", "state")
     /\ Before(t, "listen", "state")
     /\ Before(t, "state", "setState")
     /\ Before(t, "state", "resolve")

\* C17 (as stated): in every drain step the mutator is applied, then the
\* listener is invoked, then the state is written, then the bridge setter
\* is invoked, and only then the promise (if present) is resolved; the
\* bridge setter is invoked exactly once per written step.
C17_SetterThenResolve ==
  \A i \in DOMAIN applied :
    /\ StepEvents(i)
    /\ Before(Tag(applied[i]), "setState", "resolve")

\* C17 (amended): in every drain step the mutator is applied, then the
\* listener is invoked, then the state is written, then the promise (if
\* present) is resolved, and only then the bridge setter is invoked; the
\* bridge setter is invoked exactly once per written step.
C17_ResolveThenSetter ==
  \A i \in DOMAIN applied :
    /\ StepEvents(i)
    /\ Before(Tag(applied[i]), "resolve", "setState")

\* witness of C17: with a listener subscribed, a step without a promise
\* and a step with one have both been written
C17_Witness ==
  /\ hasListener
  /\ \E i, k \in DOMAIN applied :
       /\ At(Tag(applied[i]), "resolve") = {}
       /\ At(Tag(applied[k]), "resolve") # {}

\* C18: whenever no update call is executing and nothing has raised, the
\* queue is empty and no context object has isFlushing true: a drain ends
\* only on an empty queue and then resets the flag.
C18_IdleWhenQuiescent ==
  (stack = <<>> /\ errors = 0) =>
    /\ mutatorsQueue = <<>>
    /\ \A c \in DOMAIN ctxs : ~ctxs[c].isFlushing

\* witness of C18: all calls have returned, nothing raised, after steps
\* were written through two context objects and a re-entrant update call
C18_Witness ==
  /\ stack = <<>>
  /\ errors = 0
  /\ \E k \in DOMAIN calls : calls[k].reentrant
  /\ \E i, k \in DOMAIN applied : applied[i].ctx # applied[k].ctx

\* a step taken by an update call without mutators: the call itself, or
\* its return
EmptyCallStep ==
  \/ /\ Len(calls') = Len(calls) + 1
     /\ calls'[Len(calls')].mutators = <<>>
  \/ /\ stack # <<>>
     /\ stack' = Pop
     /\ Top.kind = "update"
     /\ calls[Top.call].mutators = <<>>

\* C19: an update call without mutators enqueues nothing and starts no
\* drain, its steps leave the state, the queue and the isFlushing flags as
\* they were and invoke neither listener nor bridge setter, and its promise
\* is never resolved nor rejected.
C19_EmptyUpdateDoesNothing ==
  [][/\ \A k \in DOMAIN calls' :
          calls'[k].mutators = <<>> =>
            /\ calls'[k].promise = "pending"
            /\ calls'[k].resolves = 0
            /\ calls'[k].drains = 0
            /\ \A i \in DOMAIN enqueued' : enqueued'[i][1] # k
     /\ EmptyCallStep =>
          UNCHANGED <<reactState, ctxs, mutatorsQueue, enqueued, listened,
                      applied, events>>]_vars

\* witness of C19: an update call without mutators, made from user code
\* during a drain, has returned, and steps have been written
C19_Witness ==
  /\ applied # <<>>
  /\ \E k \in DOMAIN calls :
       /\ calls[k].mutators = <<>>
       /\ calls[k].reentrant
       /\ calls[k].exit = "returned"

\* state a is contained in state b: b is a with further steps applied
IsPrefix(a, b) == Len(a) <= Len(b) /\ SubSeq(b, 1, Len(a)) = a

\* C20: the context objects connect makes for one connected component, one
\* per render, behave as one container: a step written through the handle
\* of any render is built on every step written before it through a handle
\* of that component, so no written state is overwritten by a state that
\* lacks it.
C20_ContextObjectsActAsOne ==
  \A p, q \in DOMAIN applied :
    (/\ p < q
     /\ ctxs[applied[p].ctx].mount = ctxs[applied[q].ctx].mount)
    => IsPrefix(applied[p].newState, applied[q].newState)

====
